---- MODULE Spec2Model ----
(***************************************************************************)
(* Model of the synthetic sensor-data generator (FakeData.py), of the       *)
(* configuration it reads (config.py) and of the dashboard script that     *)
(* loads and displays the data (Irrapp.py).                                *)
(*                                                                         *)
(* Numbers are fixed point:                                                *)
(*   - volumetric moisture in units of 1/1200000 (so that every literal    *)
(*     coefficient of the source is an exact integer);                     *)
(*   - rain amounts in hundredths of an inch;                              *)
(*   - sin values and the stress index in thousandths;                     *)
(*   - temperatures in thousandths of a degree C;                          *)
(*   - the wall clock in half hours, timestamps in whole hours;            *)
(*   - output moisture columns in 1e-4 (np.round(x, 4)), output            *)
(*     temperature columns in 0.1 degree (np.round(x, 1)).                 *)
(* Arrays are sequences: index i of the source is index i+1 here.          *)
(***************************************************************************)
EXTENDS Integers, Sequences, FiniteSets, TLC

VARIABLES
    now,     \* wall clock, in half hours
    rng,     \* state of the process-wide random source (np.random)
    SOIL,    \* config.SOIL singleton
    SENSOR,  \* config.SENSOR singleton
    pc,      \* "idle"; inside a call "loop", "noise"; after a call "done"
    call,    \* the arguments and the locals of the current / last call
    prev,    \* the caller's copy of the first call's result, once a second is made
    app      \* the caller's own names: widget values, df, current, metric deltas

vars == <<now, rng, SOIL, SENSOR, pc, call, prev, app>>

-----------------------------------------------------------------------------
(* Bounds of the model *)

MaxDays == 3        \* days ranges over 1..MaxDays
MaxTicks == 1       \* the clock advances at most this many half hours
MaxInitRng == 0     \* the random source starts in one of the states 0..MaxInitRng
EventWindow == 4    \* SpecSim: event hours are among the first EventWindow candidates

Scale == 12 * 100000

NoSeed == 0 - 1

-----------------------------------------------------------------------------
(* config.py *)

TEXTURE_PROPERTIES ==
    [t \in {"Sand", "Loamy Sand", "Sandy Loam", "Loam", "Silt Loam",
            "Sandy Clay Loam", "Clay Loam", "Silty Clay Loam", "Clay"} |->
       CASE t = "Sand"            -> [fc |-> 12, pwp |-> 4]
         [] t = "Loamy Sand"      -> [fc |-> 14, pwp |-> 6]
         [] t = "Sandy Loam"      -> [fc |-> 23, pwp |-> 10]
         [] t = "Loam"            -> [fc |-> 27, pwp |-> 12]
         [] t = "Silt Loam"       -> [fc |-> 33, pwp |-> 13]
         [] t = "Sandy Clay Loam" -> [fc |-> 26, pwp |-> 15]
         [] t = "Clay Loam"       -> [fc |-> 32, pwp |-> 20]
         [] t = "Silty Clay Loam" -> [fc |-> 37, pwp |-> 22]
         [] t = "Clay"            -> [fc |-> 43, pwp |-> 29]]

SoilConfig ==
    [TEXTURE_PROPERTIES |-> TEXTURE_PROPERTIES, default_texture |-> "Silt Loam"]

\* moisture_noise_std = 0.015, temp_noise_std = 0.8
SensorConfig ==
    [moisture_noise_std |-> (15 * Scale) \div 1000, temp_noise_std |-> 800]

\* a table value (hundredths) in moisture units
Vol(x) == x * (Scale \div 100)

get_soil_properties_Loam(soil, texture) ==
    LET table == soil.TEXTURE_PROPERTIES
        props == IF texture \in DOMAIN table THEN table[texture] ELSE table["Loam"]
    IN  [fc |-> Vol(props.fc), pwp |-> Vol(props.pwp),
         taw |-> Vol(props.fc) - Vol(props.pwp)]

get_soil_properties(soil, texture) ==
    LET table == soil.TEXTURE_PROPERTIES
        props == IF texture \in DOMAIN table THEN table[texture]
                 ELSE table["Silt Loam"]
    IN  [fc |-> Vol(props.fc), pwp |-> Vol(props.pwp),
         taw |-> Vol(props.fc) - Vol(props.pwp)]

-----------------------------------------------------------------------------
(* The process-wide random source.  A linear congruential generator stands *)
(* for numpy's generator: seeding fixes the state, every draw advances it  *)
(* and is a function of it.                                                *)

RngMod == 32768

Multiplier == 25173

Increment == 13849

np_random_seed(seed) == (seed * 7919 + 104729) % RngMod

NextRng(r) == (r * Multiplier + Increment) % RngMod

\* the uniform sample in [0,1) a state yields, as a numerator over 256
Sample(r) == r \div (RngMod \div 256)

\* k draws from state r: the samples, in order, and the state they leave
\* (the first half is drawn before the second, which starts where it ended)
RECURSIVE Draw(_, _)
Draw(r, k) ==
    IF k <= 0 THEN [samples |-> <<>>, rng |-> r]
    ELSE IF k = 1 THEN [samples |-> <<Sample(NextRng(r))>>, rng |-> NextRng(r)]
    ELSE LET first == Draw(r, k \div 2)
             rest  == Draw(first.rng, k - k \div 2)
         IN  [samples |-> first.samples \o rest.samples, rng |-> rest.rng]

\* np.random.randint(low, high): low <= result < high
randint_inclusive(low, high, u) == low + (u * (high - low + 1)) \div 256

randint(low, high, u) == low + (u * (high - low)) \div 256

\* np.random.uniform(low, high) = low + (high - low) * sample
uniform(low, high, u) == low + ((high - low) * u) \div 256

\* np.random.normal(0, std): a standard score in tenths, by quantile bin
NormalZ == <<-20, -10, -5, 0, 0, 5, 10, 20>>

normal(std, u) == (std * NormalZ[(u \div 32) + 1]) \div 10

RemoveAt(s, k) == [j \in 1..(Len(s) - 1) |-> IF j < k THEN s[j] ELSE s[j + 1]]

\* np.random.choice(a, size, replace=False) on the samples us
RECURSIVE choice(_, _, _)
choice(a, us, acc) ==
    IF us = <<>> THEN acc
    ELSE LET k == ((Head(us) * Len(a)) \div 256) + 1
         IN  choice(RemoveAt(a, k), Tail(us), Append(acc, a[k]))

-----------------------------------------------------------------------------
(* generate_sensor_data: timestamps *)

\* datetime.now().replace(minute=0, second=0, microsecond=0), in whole hours
HourFloor(clock) == clock \div 2

\* pd.date_range(start, end, freq='h'): both ends included
date_range_open(start, end) == [k \in 1..(end - start) |-> start + k - 1]

date_range(start, end) == [k \in 1..(end - start + 1) |-> start + k - 1]

hour_of(ts) == ts % 24

-----------------------------------------------------------------------------
(* generate_sensor_data: rain events (lines 76-86) *)

\* range(24, n_hours - 24)
Candidates(n_hours) == [k \in 1..(n_hours - 48) |-> 23 + k]

Min(x, y) == IF x < y THEN x ELSE y

rain_draw(r, n_hours, k) ==
    LET us      == Draw(NextRng(r), 2 * k)
        hours   == choice(Candidates(n_hours), SubSeq(us.samples, 1, k), <<>>)
        amounts == SubSeq(us.samples, k + 1, 2 * k)
    IN  [status |-> "ok", n_events |-> k,
         rain_events |-> [j \in 1..k |-> <<hours[j], uniform(20, 100, amounts[j])>>],
         rng |-> us.rng, draws |-> 1 + 2 * k]

\* a variant that shrinks the sample to the population instead of failing
generate_rain_events_truncating(r, n_hours) ==
    LET k == randint(2, 5, Sample(NextRng(r)))
    IN  LET got == rain_draw(r, n_hours, Min(k, Len(Candidates(n_hours))))
        IN  [got EXCEPT !.n_events = k]

\* n_events = randint(2, 5); choice raises ValueError on an empty population
\* and on a sample larger than the population, before it draws anything
generate_rain_events(r, n_hours) ==
    LET k == randint(2, 5, Sample(NextRng(r)))
    IN  IF Len(Candidates(n_hours)) = 0 \/ k > Len(Candidates(n_hours))
        THEN [status |-> "ValueError", n_events |-> k, rain_events |-> <<>>,
              rng |-> NextRng(r), draws |-> 1]
        ELSE rain_draw(r, n_hours, k)

-----------------------------------------------------------------------------
(* generate_sensor_data: the hourly loop (lines 89-124) *)

\* 1000 * sin(pi * k / 14), k = 0..14
Sin14 == <<0, 223, 434, 623, 782, 901, 975, 1000, 975, 901, 782, 623, 434, 223, 0>>

\* the sine taken for every hour from 6 on, without the upper end of the window
diurnal_factor_unwindowed(hour_of_day) ==
    IF 6 <= hour_of_day
    THEN (Sin14 \o <<-223, -434, -623>>)[hour_of_day - 6 + 1]
    ELSE 0

\* lines 93-96: sin(pi * (hour_of_day - 6) / 14) from 6 to 20, else 0
diurnal_factor(hour_of_day) ==
    IF 6 <= hour_of_day /\ hour_of_day <= 20 THEN Sin14[hour_of_day - 6 + 1] ELSE 0

\* base_et_rate = 0.012
base_et_rate == (12 * Scale) \div 1000

\* et_volumetric = base_et_rate * diurnal_factor / 6
et_volumetric(hour_of_day) ==
    ((base_et_rate * diurnal_factor(hour_of_day)) \div 1000) \div 6

\* depletion_factors = {6: 1.0, 12: 0.6, 18: 0.3}, in tenths
depletion_factors == [s |-> 10, m |-> 6, d |-> 3]

Depletion(hour_of_day) ==
    [s |-> (et_volumetric(hour_of_day) * depletion_factors.s) \div 10,
     m |-> (et_volumetric(hour_of_day) * depletion_factors.m) \div 10,
     d |-> (et_volumetric(hour_of_day) * depletion_factors.d) \div 10]

\* what one rain event adds to each depth at hour i (lines 110-119)
RainEffect_no_pulse(event, i) ==
    LET event_hour == event[1]
        amount     == event[2]
    IN  IF event_hour <= i /\ i < event_hour + 12
        THEN [s |-> 0,
              m |-> (((amount * 3 * Scale) \div 100000) * (12 - (i - event_hour))) \div 12,
              d |-> (((amount * 2 * Scale) \div 100000) * (12 - (i - event_hour))) \div 12]
        ELSE [s |-> 0, m |-> 0, d |-> 0]

\* a variant with two separate ifs: the event hour also gets the continued term
RainEffect_no_elif(event, i) ==
    LET event_hour == event[1]
        amount     == event[2]
        pulse == IF i = event_hour
                 THEN [s |-> (amount * 8 * Scale) \div 10000,
                       m |-> (amount * 4 * Scale) \div 10000,
                       d |-> (amount * 2 * Scale) \div 10000]
                 ELSE [s |-> 0, m |-> 0, d |-> 0]
        more  == IF event_hour <= i /\ i < event_hour + 12
                 THEN [s |-> 0,
                       m |-> (((amount * 3 * Scale) \div 100000) * (12 - (i - event_hour))) \div 12,
                       d |-> (((amount * 2 * Scale) \div 100000) * (12 - (i - event_hour))) \div 12]
                 ELSE [s |-> 0, m |-> 0, d |-> 0]
    IN  [s |-> pulse.s + more.s, m |-> pulse.m + more.m, d |-> pulse.d + more.d]

RainEffect(event, i) ==
    LET event_hour == event[1]
        amount     == event[2]
    IN  IF i = event_hour
        THEN [s |-> (amount * 8 * Scale) \div 10000,
              m |-> (amount * 4 * Scale) \div 10000,
              d |-> (amount * 2 * Scale) \div 10000]
        ELSE IF event_hour < i /\ i < event_hour + 12
        THEN [s |-> 0,
              m |-> (((amount * 3 * Scale) \div 100000) * (12 - (i - event_hour))) \div 12,
              d |-> (((amount * 2 * Scale) \div 100000) * (12 - (i - event_hour))) \div 12]
        ELSE [s |-> 0, m |-> 0, d |-> 0]

RECURSIVE RainTotal(_, _, _)
RainTotal(events, i, acc) ==
    IF events = <<>> THEN acc
    ELSE LET e == RainEffect(Head(events), i)
         IN  RainTotal(Tail(events), i,
                       [s |-> acc.s + e.s, m |-> acc.m + e.m, d |-> acc.d + e.d])

\* np.clip
clip(x, lo, hi) == IF x < lo THEN lo ELSE IF x > hi THEN hi ELSE x

ClampLo(props) == (props.pwp * 8) \div 10

ClampHi(props) == (props.fc * 105) \div 100

\* one iteration of the loop: the values at hour i from those at hour i-1
HourStep(p, i, hour_of_day, events, props) ==
    LET et   == Depletion(hour_of_day)
        rain == RainTotal(events, i, [s |-> 0, m |-> 0, d |-> 0])
    IN  [s |-> clip(p.s - et.s + rain.s, ClampLo(props), ClampHi(props)),
         m |-> clip(p.m - et.m + rain.m, ClampLo(props), ClampHi(props)),
         d |-> clip(p.d - et.d + rain.d, ClampLo(props), ClampHi(props))]

\* iterations lo..hi of the loop, from the values p of hour lo-1; the range
\* is split in halves, the second half starting from the last values of the
\* first, so that hours are still computed in order, each from the previous
RECURSIVE SimLoop(_, _, _, _, _, _)
SimLoop(lo, hi, ts, events, props, p) ==
    IF lo = hi
    THEN LET q == HourStep(p, lo, hour_of(ts[lo + 1]), events, props)
         IN  [last |-> q, s |-> <<q.s>>, m |-> <<q.m>>, d |-> <<q.d>>]
    ELSE LET mid   == (lo + hi) \div 2
             first == SimLoop(lo, mid, ts, events, props, p)
             rest  == SimLoop(mid + 1, hi, ts, events, props, first.last)
         IN  [s |-> first.s \o rest.s, m |-> first.m \o rest.m,
              d |-> first.d \o rest.d, last |-> rest.last]

\* initial_moisture = pwp + 0.70 * taw
initial_moisture(props) == props.pwp + (70 * props.taw) \div 100

\* lines 62-67 and 89-124: the three arrays after the loop
simulate(ts, events, props) ==
    LET m0 == initial_moisture(props)
    IN  IF Len(ts) <= 1 THEN [s |-> <<m0>>, m |-> <<m0>>, d |-> <<m0>>]
        ELSE LET run == SimLoop(1, Len(ts) - 1, ts, events, props,
                                [s |-> m0, m |-> m0, d |-> m0])
             IN  [s |-> <<m0>> \o run.s, m |-> <<m0>> \o run.m,
                  d |-> <<m0>> \o run.d]

-----------------------------------------------------------------------------
(* generate_sensor_data: noise, temperatures, table (lines 126-166) *)

\* np.round(x, d): to the nearest multiple of q, halves to the even one
np_round(x, q) ==
    LET f == x \div q
        r == x - f * q
    IN  IF 2 * r < q THEN f
        ELSE IF 2 * r > q THEN f + 1
        ELSE IF f % 2 = 0 THEN f ELSE f + 1

\* 1000 * sin(pi * k / 12), k = 0..12
Sin12 == <<0, 259, 500, 707, 866, 966, 1000, 966, 866, 707, 500, 259, 0>>

\* base_temp = 30.0, daily_amplitude = 8.0 (lines 133-141)
air_temp_base(hour) ==
    IF 6 <= hour /\ hour <= 18 THEN 30000 + 8 * Sin12[hour - 6 + 1]
    ELSE 30000 - (8000 * 5) \div 10

\* lines 148-149, with the clip left out
moisture_stress_unclipped(avg_moisture, props) ==
    1000 - ((avg_moisture - props.pwp) * 1000) \div props.taw

\* moisture_stress = clip(1 - (avg_moisture - pwp) / taw, 0, 1)
moisture_stress_of(avg_moisture, props) ==
    clip(1000 - ((avg_moisture - props.pwp) * 1000) \div props.taw, 0, 1000)

\* canopy_offset = -2 + 7 * moisture_stress
canopy_offset_of(stress) == 7 * stress - 2000

\* the values of hour i (index k = i+1) after lines 126-154; us holds the
\* 5 * n_hours samples in the order the source draws them
Measured(k, n, ts, sm, props, sensor, us) ==
    LET m6     == sm.s[k] + normal(sensor.moisture_noise_std, us[k])
        m12    == sm.m[k] + normal(sensor.moisture_noise_std, us[n + k])
        m18    == sm.d[k] + normal(sensor.moisture_noise_std, us[2 * n + k])
        air    == air_temp_base(hour_of(ts[k])) + normal(sensor.temp_noise_std, us[3 * n + k])
        stress == moisture_stress_of((m6 + m12) \div 2, props)
        canopy == air + canopy_offset_of(stress)
                      + normal((sensor.temp_noise_std * 5) \div 10, us[4 * n + k])
    IN  [stress |-> stress, offset |-> canopy_offset_of(stress),
         row |-> [timestamp |-> ts[k],
                  sm_6in |-> np_round(m6, Scale \div 10000),
                  sm_12in |-> np_round(m12, Scale \div 10000),
                  sm_18in |-> np_round(m18, Scale \div 10000),
                  canopy_temp_c |-> np_round(canopy, 100),
                  air_temp_c |-> np_round(air, 100)]]

measure(ts, sm, props, sensor, r) ==
    LET n   == Len(ts)
        us  == Draw(r, 5 * n)
        all == SubSeq([k \in 1..n |-> Measured(k, n, ts, sm, props, sensor, us.samples)], 1, n)
    IN  [moisture_stress |-> [k \in 1..n |-> all[k].stress],
         canopy_offset |-> [k \in 1..n |-> all[k].offset],
         df |-> [status |-> "ok", rows |-> [k \in 1..n |-> all[k].row]],
         rng |-> us.rng, draws |-> 5 * n]

-----------------------------------------------------------------------------
(* generate_sensor_data as a whole (lines 47-166) *)

NoArray == <<>>

seed_unconditionally(r, seed) ==
    [rng |-> np_random_seed(IF seed = NoSeed THEN 42 ELSE seed), reseeded |-> TRUE]

\* lines 47-48
seed_step(r, seed) ==
    IF seed # NoSeed THEN [rng |-> np_random_seed(seed), reseeded |-> TRUE]
    ELSE [rng |-> r, reseeded |-> FALSE]

\* the locals once lines 47-86 have run
Prologue(a, clock, r, soil) ==
    LET sd   == seed_step(r, a.seed)
        endt == HourFloor(clock)
        ts   == date_range(endt - a.days * 24, endt)
        rain == IF a.include_rain_events THEN generate_rain_events(sd.rng, Len(ts))
                ELSE [status |-> "ok", n_events |-> 0, rain_events |-> <<>>,
                      rng |-> sd.rng, draws |-> 0]
    IN  [args |-> a, props |-> get_soil_properties(soil, a.soil_texture),
         end_time |-> endt, timestamps |-> SubSeq(ts, 1, Len(ts)),
         rng0 |-> sd.rng, reseeded |-> sd.reseeded,
         n_events |-> rain.n_events, rain_events |-> rain.rain_events,
         sm_6in |-> NoArray, sm_12in |-> NoArray, sm_18in |-> NoArray,
         moisture_stress |-> NoArray, canopy_offset |-> NoArray,
         df |-> [status |-> IF rain.status = "ok" THEN "none" ELSE rain.status,
                 rows |-> <<>>],
         rng |-> rain.rng, draws |-> rain.draws]

\* lines 62-67 and 89-124 applied to the locals c
AfterLoop(c) ==
    LET sm == simulate(c.timestamps, c.rain_events, c.props)
    IN  [c EXCEPT !.sm_6in = sm.s, !.sm_12in = sm.m, !.sm_18in = sm.d]

\* lines 126-166 applied to the locals c
AfterMeasure(c, sensor) ==
    LET out == measure(c.timestamps,
                       [s |-> c.sm_6in, m |-> c.sm_12in, d |-> c.sm_18in],
                       c.props, sensor, c.rng)
    IN  [c EXCEPT !.moisture_stress = out.moisture_stress,
                  !.canopy_offset = out.canopy_offset,
                  !.df = out.df, !.rng = out.rng, !.draws = c.draws + out.draws]

generate_sensor_data(a, clock, r, soil, sensor) ==
    LET c == Prologue(a, clock, r, soil)
    IN  IF c.df.status # "none" THEN c ELSE AfterMeasure(AfterLoop(c), sensor)

-----------------------------------------------------------------------------
(* The process: the clock runs, and a caller invokes generate_sensor_data,  *)
(* possibly a second time later, keeping the first result to compare.       *)

\* half past midnight
StartClock == 24 * 2 * 30 + 1

Days == 1..MaxDays

\* "Gravel" is not in the texture table
TextureNames == {"Silt Loam", "Gravel"}

\* no seed, or the default seed of line 26
Seeds == {NoSeed, 42}

Args == [days : Days, soil_texture : TextureNames,
         include_rain_events : BOOLEAN, seed : Seeds]

NoCall == [called |-> FALSE]

CallRecord(c) ==
    [called |-> TRUE, args |-> c.args, end_time |-> c.end_time, rng0 |-> c.rng0,
     df |-> c.df]

NotCalled == [df |-> [status |-> "none", rows |-> <<>>]]

\* no caller script is running
NoApp == [running |-> FALSE]

Init ==
    /\ now = StartClock
    /\ rng \in 0..MaxInitRng
    /\ SOIL = SoilConfig
    /\ SENSOR = SensorConfig
    /\ pc = "idle"
    /\ call = NotCalled
    /\ prev = NoCall
    /\ app = NoApp

Tick ==
    /\ now < StartClock + MaxTicks
    /\ now' = now + 1
    /\ UNCHANGED <<rng, SOIL, SENSOR, pc, call, prev, app>>

\* one call of generate_sensor_data, from entry to return or raise
Generate(a) ==
    /\ pc = "idle" \/ (pc = "done" /\ prev = NoCall)
    /\ pc' = "done"
    /\ call' = generate_sensor_data(a, now, rng, SOIL, SENSOR)
    /\ rng' = call'.rng
    /\ prev' = IF pc = "done" THEN CallRecord(call) ELSE prev
    /\ UNCHANGED <<now, SOIL, SENSOR, app>>

Next ==
    \/ Tick
    \/ \E a \in Args : Generate(a)

Spec == Init /\ [][Next]_vars

-----------------------------------------------------------------------------
(* The simulation on its own: a call with no seed that has run lines 47-86, *)
(* with the rain events the random source may have produced drawn from      *)
(* bounded sets, then the loop, then the measurement.                       *)

\* calls made at half past midnight and half past noon
SimClocks == {StartClock, StartClock + 24}

SimTextures == {"Sand", "Silt Loam", "Clay"}

SimDays == MaxDays + 1

\* np.random.uniform(0.2, 1.0) at its ends
AmountSamples == {uniform(20, 100, 0), uniform(20, 100, 255)}

RECURSIVE Ascending(_)
Ascending(S) ==
    IF S = {} THEN <<>>
    ELSE LET lo == CHOOSE x \in S : \A y \in S : x <= y
         IN  <<lo>> \o Ascending(S \ {lo})

\* 2 to 4 events at distinct hours among the first EventWindow candidates
EventChoices(n_hours) ==
    LET window == {Candidates(n_hours)[k] : k \in 1..Min(EventWindow, n_hours - 48)}
    IN  UNION {{[j \in 1..Cardinality(H) |-> <<Ascending(H)[j], amt[Ascending(H)[j]]>>] :
                  amt \in [H -> AmountSamples]} :
               H \in {G \in SUBSET window : Cardinality(G) \in 2..4}}

SimArgs(texture, rain) ==
    [days |-> SimDays, soil_texture |-> texture, include_rain_events |-> rain,
     seed |-> NoSeed]

InitSim ==
    /\ now \in SimClocks
    /\ rng \in 0..MaxInitRng
    /\ SOIL = SoilConfig
    /\ SENSOR = SensorConfig
    /\ pc = "loop"
    /\ prev = NoCall
    /\ app = NoApp
    /\ \E texture \in SimTextures :
         \/ call = Prologue(SimArgs(texture, FALSE), now, rng, SOIL)
         \/ \E events \in EventChoices(SimDays * 24 + 1) :
              call = [Prologue(SimArgs(texture, FALSE), now, rng, SOIL) EXCEPT
                        !.args = SimArgs(texture, TRUE),
                        !.n_events = Len(events),
                        !.rain_events = events,
                        !.draws = 1 + 2 * Len(events)]

\* lines 62-67 and 89-124
RunLoop ==
    /\ pc = "loop"
    /\ pc' = "noise"
    /\ call' = AfterLoop(call)
    /\ UNCHANGED <<now, rng, SOIL, SENSOR, prev, app>>

\* lines 126-166
Measure ==
    /\ pc = "noise"
    /\ pc' = "done"
    /\ call' = AfterMeasure(call, SENSOR)
    /\ rng' = call'.rng
    /\ UNCHANGED <<now, SOIL, SENSOR, prev, app>>

NextSim ==
    \/ RunLoop
    \/ Measure

SpecSim == InitSim /\ [][NextSim]_vars

-----------------------------------------------------------------------------
(* Properties *)

\* the arrays of the source are indexed from 0
At(array, i) == array[i + 1]

n_hours_of(days) == days * 24 + 1

Returned == pc = "done" /\ call.df.status = "ok"

LoopDone == pc \in {"noise", "done"} /\ call.df.status \in {"none", "ok"}

\* an output moisture value (1e-4 units) lies within the clamp range
InClampRange(v, props) ==
    /\ ClampLo(props) <= v * (Scale \div 10000)
    /\ v * (Scale \div 10000) <= ClampHi(props)

\* C1: every moisture value of every row of the returned table lies within
\* [wilting_point*0.8, field_capacity*1.05] of the resolved texture.
C1_OutputWithinClampRange ==
    Returned =>
        \A k \in 1..Len(call.df.rows) :
            /\ InClampRange(call.df.rows[k].sm_6in, call.props)
            /\ InClampRange(call.df.rows[k].sm_12in, call.props)
            /\ InClampRange(call.df.rows[k].sm_18in, call.props)

\* C2: two calls with the same days, the same texture, rain events enabled
\* and the same explicit seed return identical tables, whenever they are made.
C2_SeededCallsIdentical ==
    (/\ pc = "done"
     /\ prev.called
     /\ prev.args = call.args
     /\ call.args.seed # NoSeed
     /\ call.args.include_rain_events)
    => prev.df = call.df

\* C3: a returned table has exactly days*24 + 1 rows.
C3_RowCount ==
    Returned => Len(call.df.rows) = call.args.days * 24 + 1

C3_Witness ==
    /\ Returned
    /\ call.args.include_rain_events
    /\ call.args.days = MaxDays
    /\ Len(call.df.rows) = MaxDays * 24 + 1

\* the precondition of the rain-event sampling fails
TooFewCandidates ==
    /\ call.args.include_rain_events
    /\ n_hours_of(call.args.days) - 48 < call.n_events

\* C4: with rain events enabled and fewer candidate hours than drawn events,
\* the call fails with an error and produces no series at all.
C4_ShortHorizonFails ==
    (pc = "done" /\ TooFewCandidates) =>
        /\ call.df.status = "ValueError"
        /\ call.df.rows = <<>>
        /\ call.rain_events = <<>>
        /\ call.sm_6in = NoArray /\ call.sm_12in = NoArray /\ call.sm_18in = NoArray

C4_Witness ==
    /\ pc = "done"
    /\ TooFewCandidates
    /\ call.args.days = 2
    /\ call.df.status = "ValueError"

Unknown(texture) == texture \notin DOMAIN SOIL.TEXTURE_PROPERTIES

\* the two calls differ in nothing but the texture name: t1 first, t2 second
SameButTexture(t1, t2) ==
    /\ pc = "done"
    /\ prev.called
    /\ prev.args.soil_texture = t1
    /\ call.args.soil_texture = t2
    /\ prev.args.days = call.args.days
    /\ prev.args.include_rain_events = call.args.include_rain_events
    /\ prev.args.seed = call.args.seed
    /\ prev.rng0 = call.rng0
    /\ prev.end_time = call.end_time

\* C5: a call with a texture name that is not in the table raises no error
\* of its own and returns what the call with "Silt Loam" returns, the other
\* arguments, the seed (or the state of the random source) and the clock hour
\* being equal.
C5_UnknownTextureFallsBack ==
    /\ \A t \in TextureNames :
         (Unknown(t) /\ (SameButTexture(t, "Silt Loam") \/ SameButTexture("Silt Loam", t)))
         => prev.df = call.df
    /\ (pc = "done" /\ Unknown(call.args.soil_texture) /\ ~TooFewCandidates)
         => call.df.status = "ok"

C5_Witness ==
    /\ SameButTexture("Gravel", "Silt Loam")
    /\ Unknown("Gravel")
    /\ call.args.include_rain_events
    /\ call.df.status = "ok"
    /\ prev.df = call.df

\* C6: the stress value that enters the canopy offset lies in [0,1] at every
\* hour, hence the offset -2 + 7*stress lies in [-2, 5].
C6_StressClipped ==
    Returned =>
        \A k \in 1..Len(call.moisture_stress) :
            /\ call.moisture_stress[k] \in 0..1000
            /\ call.canopy_offset[k] = 7 * call.moisture_stress[k] - 2000
            /\ call.canopy_offset[k] \in (0 - 2000)..5000

\* a returned row whose noisy average moisture lies above field capacity,
\* and one whose average lies below the wilting point
C6_Witness ==
    /\ Returned
    /\ \E k \in 1..Len(call.df.rows) :
         /\ (call.df.rows[k].sm_6in + call.df.rows[k].sm_12in) * (Scale \div 10000)
                > 2 * call.props.fc + 4 * (Scale \div 10000)
         /\ call.moisture_stress[k] = 0
    /\ \E k \in 1..Len(call.df.rows) :
         /\ (call.df.rows[k].sm_6in + call.df.rows[k].sm_12in) * (Scale \div 10000)
                < 2 * call.props.pwp - 4 * (Scale \div 10000)
         /\ call.moisture_stress[k] = 1000

\* the shallow value pure ET depletion gives at hour i from the stored value
\* of hour i-1
EtOnly(i) ==
    At(call.sm_6in, i - 1) - Depletion(hour_of(At(call.timestamps, i))).s

EventHours == {call.rain_events[j][1] : j \in 1..Len(call.rain_events)}

\* C7: at the hour of every rain event the stored shallow value is strictly
\* higher than the value pure ET depletion gives from the hour before.
C7_RainStrictlyHigher ==
    LoopDone /\ call.sm_6in # NoArray =>
        \A h \in EventHours : At(call.sm_6in, h) > EtOnly(h)

\* C7 as amended: strictly higher unless the ET-only value already is the
\* upper clamp fc*1.05, where the stored value is that clamp.
C7_RainHigherBelowClamp ==
    LoopDone /\ call.sm_6in # NoArray =>
        \A h \in EventHours :
            /\ EtOnly(h) <= ClampHi(call.props)
            /\ EtOnly(h) < ClampHi(call.props) => At(call.sm_6in, h) > EtOnly(h)
            /\ EtOnly(h) = ClampHi(call.props) => At(call.sm_6in, h) = ClampHi(call.props)

C7_Witness ==
    /\ LoopDone /\ call.sm_6in # NoArray
    /\ \E h \in EventHours :
         EtOnly(h) < ClampHi(call.props) /\ At(call.sm_6in, h) < ClampHi(call.props)
    /\ \E h \in EventHours : EtOnly(h) = ClampHi(call.props)

NonIncreasing(array) ==
    \A k \in 2..Len(array) : array[k] <= array[k - 1]

\* C8: without rain events each depth's sequence, as the loop leaves it, never
\* increases from one hour to the next.
C8_NoRainNonIncreasing ==
    (LoopDone /\ call.sm_6in # NoArray /\ ~call.args.include_rain_events) =>
        /\ NonIncreasing(call.sm_6in)
        /\ NonIncreasing(call.sm_12in)
        /\ NonIncreasing(call.sm_18in)

\* a dry run that falls during the day, rests at night and ends on the
\* lower clamp
C8_Witness ==
    /\ LoopDone /\ call.sm_6in # NoArray /\ ~call.args.include_rain_events
    /\ \E k \in 2..Len(call.sm_6in) : call.sm_6in[k] < call.sm_6in[k - 1]
    /\ \E k \in 2..Len(call.sm_6in) :
         call.sm_6in[k] = call.sm_6in[k - 1] /\ call.sm_6in[k] > ClampLo(call.props)
    /\ \E k \in 2..Len(call.sm_6in) :
         /\ call.sm_6in[k] = ClampLo(call.props)
         /\ call.sm_6in[k - 1] = ClampLo(call.props)
         /\ Depletion(hour_of(call.timestamps[k])).s > 0

\* C9: a successful call with rain events has 2 to 4 events at pairwise
\* distinct hours in [24, n_hours-24) with amounts in [0.2, 1.0]; a call
\* without rain events has none.
C9_RainEventSet ==
    Returned =>
        IF call.args.include_rain_events
        THEN /\ Len(call.rain_events) \in 2..4
             /\ Len(call.rain_events) = call.n_events
             /\ \A j \in 1..Len(call.rain_events) :
                  /\ 24 <= call.rain_events[j][1]
                  /\ call.rain_events[j][1] < n_hours_of(call.args.days) - 24
                  /\ call.rain_events[j][2] \in 20..100
             /\ \A j, k \in 1..Len(call.rain_events) :
                  j # k => call.rain_events[j][1] # call.rain_events[k][1]
        ELSE call.rain_events = <<>>

C9_Witness ==
    /\ Returned
    /\ call.args.include_rain_events
    /\ Len(call.rain_events) >= 3

\* C10: a call reseeds the random source exactly when a seed is given; with
\* no seed it only draws from the source as it found it; and no step changes
\* the configuration singletons.
C10_ReseedsOnlyWithSeed ==
    [][/\ SOIL' = SOIL
       /\ SENSOR' = SENSOR
       /\ (pc' = "done" /\ now' = now) =>
            /\ call'.reseeded <=> (call'.args.seed # NoSeed)
            /\ call'.args.seed # NoSeed => call'.rng0 = np_random_seed(call'.args.seed)
            /\ call'.args.seed = NoSeed =>
                 /\ call'.rng0 = rng
                 /\ rng' = Draw(rng, call'.draws).rng]_vars

C10_Witness ==
    /\ pc = "done"
    /\ prev.called
    /\ call.args.seed = NoSeed
    /\ ~call.reseeded
    /\ call.draws > 0
    /\ prev.args.seed # NoSeed
    /\ call.rng0 # np_random_seed(prev.args.seed)

-----------------------------------------------------------------------------
(* get_current_conditions (FakeData.py lines 169-184) *)

MaxRows == 3        \* SpecCur: the series passed in have 0..MaxRows rows

\* DataFrame.iloc[k]: position k from the start, or from the end when k < 0;
\* a position outside the frame raises IndexError
iloc(rows, k) ==
    LET n == Len(rows)
        j == IF k < 0 THEN n + k ELSE k
    IN  IF j < 0 \/ j >= n THEN [status |-> "IndexError"]
        ELSE [status |-> "ok", value |-> rows[j + 1]]

\* a variant that reads the first row instead of the last
get_current_conditions_first(df) ==
    LET latest == iloc(df.rows, 0)
    IN  IF latest.status # "ok" THEN [status |-> latest.status]
        ELSE [status |-> "ok",
              value |-> [timestamp |-> latest.value.timestamp,
                         sm_6in |-> latest.value.sm_6in,
                         sm_12in |-> latest.value.sm_12in,
                         sm_18in |-> latest.value.sm_18in,
                         canopy_temp_c |-> latest.value.canopy_temp_c,
                         air_temp_c |-> latest.value.air_temp_c]]

get_current_conditions(df) ==
    LET latest == iloc(df.rows, -1)
    IN  IF latest.status # "ok" THEN [status |-> latest.status]
        ELSE [status |-> "ok",
              value |-> [timestamp |-> latest.value.timestamp,
                         sm_6in |-> latest.value.sm_6in,
                         sm_12in |-> latest.value.sm_12in,
                         sm_18in |-> latest.value.sm_18in,
                         canopy_temp_c |-> latest.value.canopy_temp_c,
                         air_temp_c |-> latest.value.air_temp_c]]

\* get_current_conditions on its own: a caller holds a series of 0..MaxRows
\* hourly rows and applies the function to it.

\* sensor readings a row may hold (moisture in 1e-4, temperatures in 0.1 C)
Readings ==
    {[sm_6in |-> 2710, sm_12in |-> 2705, sm_18in |-> 2702, canopy_temp_c |-> 281, air_temp_c |-> 260],
     [sm_6in |-> 2655, sm_12in |-> 2705, sm_18in |-> 2688, canopy_temp_c |-> 395, air_temp_c |-> 379],
     [sm_6in |-> 3465, sm_12in |-> 3102, sm_18in |-> 2790, canopy_temp_c |-> 281, air_temp_c |-> 302],
     [sm_6in |-> 1040, sm_12in |-> 1311, sm_18in |-> 2702, canopy_temp_c |-> 412, air_temp_c |-> 379]}

\* the series of n rows ending at hour end_time
SeriesOf(n, end_time) ==
    {[k \in 1..n |->
        [timestamp |-> end_time - n + k,
         sm_6in |-> r[k].sm_6in, sm_12in |-> r[k].sm_12in, sm_18in |-> r[k].sm_18in,
         canopy_temp_c |-> r[k].canopy_temp_c, air_temp_c |-> r[k].air_temp_c]] :
      r \in [1..n -> Readings]}

NoCurrent == [status |-> "none"]

InitCur ==
    /\ now = StartClock
    /\ rng \in 0..MaxInitRng
    /\ SOIL = SoilConfig
    /\ SENSOR = SensorConfig
    /\ pc = "current"
    /\ call = NotCalled
    /\ prev = NoCall
    /\ \E n \in 0..MaxRows : \E rows \in SeriesOf(n, HourFloor(now)) :
         app = [running |-> TRUE, df |-> [status |-> "ok", rows |-> rows],
                current |-> NoCurrent]

\* current = get_current_conditions(df)
GetCurrent ==
    /\ pc = "current"
    /\ pc' = "done"
    /\ app' = [app EXCEPT !.current = get_current_conditions(app.df)]
    /\ UNCHANGED <<now, rng, SOIL, SENSOR, call, prev>>

NextCur == GetCurrent

SpecCur == InitCur /\ [][NextCur]_vars

CurrentFields ==
    {"timestamp", "sm_6in", "sm_12in", "sm_18in", "canopy_temp_c", "air_temp_c"}

\* C11: get_current_conditions on a non-empty series returns a mapping of
\* exactly the six fields with the values of the last row, on an empty series
\* it fails, and in both cases the series is left as it was.
C11_CurrentIsLastRow ==
    [][(pc = "current" /\ pc' = "done") =>
         /\ app'.df = app.df
         /\ IF app.df.rows = <<>>
            THEN app'.current.status = "IndexError"
            ELSE /\ app'.current.status = "ok"
                 /\ DOMAIN app'.current.value = CurrentFields
                 /\ \A f \in CurrentFields :
                      app'.current.value[f] = app.df.rows[Len(app.df.rows)][f]]_vars

\* a series of several rows whose last row differs from the first in every
\* field, with the mapping returned
C11_Witness ==
    /\ pc = "done"
    /\ app.running
    /\ app.current.status = "ok"
    /\ Len(app.df.rows) = MaxRows
    /\ \A f \in CurrentFields : app.df.rows[1][f] # app.df.rows[MaxRows][f]
    /\ app.current.value.sm_6in = app.df.rows[MaxRows].sm_6in

-----------------------------------------------------------------------------
(* Rain contributions per hour *)

\* what the event (h, a) is stated to add at hour i: the immediate pulse at
\* i = h, the decaying term to mid and deep for h < i < h+12, else nothing
StatedRain(h, a, i) ==
    IF i = h
    THEN [s |-> (a * 8 * Scale) \div (100 * 100),
          m |-> (a * 4 * Scale) \div (100 * 100),
          d |-> (a * 2 * Scale) \div (100 * 100)]
    ELSE IF h < i /\ i < h + 12
    THEN [s |-> 0,
          m |-> a * 3 * (12 - (i - h)) * (Scale \div (100 * 1000 * 12)),
          d |-> a * 2 * (12 - (i - h)) * (Scale \div (100 * 1000 * 12))]
    ELSE [s |-> 0, m |-> 0, d |-> 0]

RECURSIVE StatedRainTotal(_, _)
StatedRainTotal(events, i) ==
    IF events = <<>> THEN [s |-> 0, m |-> 0, d |-> 0]
    ELSE LET e    == StatedRain(Head(events)[1], Head(events)[2], i)
             rest == StatedRainTotal(Tail(events), i)
         IN  [s |-> e.s + rest.s, m |-> e.m + rest.m, d |-> e.d + rest.d]

\* the value the loop stores at hour i, given the stored value of hour i-1,
\* the ET delta of the hour and the rain added
StoredFrom(before, et, rain) ==
    clip(before - et + rain, ClampLo(call.props), ClampHi(call.props))

\* C12: at every hour i the loop stores, for each depth, the value of hour
\* i-1 less the ET delta plus, for each rain event (h, a): the pulse if i = h;
\* a*0.003*(12-(i-h))/12 to mid, a*0.002*(12-(i-h))/12 to deep and nothing to
\* shallow if h < i < h+12; nothing if i < h or i >= h+12 (then clamped).
C12_RainContributions ==
    (LoopDone /\ call.sm_6in # NoArray) =>
        \A i \in 1..(Len(call.sm_6in) - 1) :
            LET et   == Depletion(hour_of(At(call.timestamps, i)))
                rain == StatedRainTotal(call.rain_events, i)
            IN  /\ At(call.sm_6in, i) = StoredFrom(At(call.sm_6in, i - 1), et.s, rain.s)
                /\ At(call.sm_12in, i) = StoredFrom(At(call.sm_12in, i - 1), et.m, rain.m)
                /\ At(call.sm_18in, i) = StoredFrom(At(call.sm_18in, i - 1), et.d, rain.d)

\* hour i lies within the twelve hours that start at some event's hour
InSomeWindow(i) == \E h \in EventHours : h <= i /\ i < h + 12

\* a run where, away from the clamps, the hour after an event raises mid and
\* deep by the decaying terms alone and leaves shallow to ET, the last hour
\* of a window still adds to mid, and the hour after every window adds nothing
C12_Witness ==
    /\ LoopDone /\ call.sm_6in # NoArray /\ Len(call.rain_events) >= 2
    /\ \E i \in 1..(Len(call.sm_6in) - 1) :
         /\ i - 1 \in EventHours /\ i \notin EventHours
         /\ At(call.sm_12in, i) < ClampHi(call.props)
         /\ At(call.sm_12in, i) > At(call.sm_12in, i - 1)
         /\ At(call.sm_18in, i) > At(call.sm_18in, i - 1)
         /\ At(call.sm_6in, i) = At(call.sm_6in, i - 1)
                - Depletion(hour_of(At(call.timestamps, i))).s
    /\ \E i \in 1..(Len(call.sm_6in) - 1) :
         /\ InSomeWindow(i) /\ ~InSomeWindow(i + 1)
         /\ At(call.sm_12in, i) < ClampHi(call.props)
         /\ At(call.sm_12in, i) > At(call.sm_12in, i - 1)
                - Depletion(hour_of(At(call.timestamps, i))).m
         /\ At(call.sm_12in, i + 1) = At(call.sm_12in, i)
                - Depletion(hour_of(At(call.timestamps, i + 1))).m
         /\ At(call.sm_12in, i + 1) > ClampLo(call.props)

-----------------------------------------------------------------------------
(* The dashboard script (Irrapp.py): every run reads the widgets, loads the *)
(* data through the cache, takes the current conditions and computes the   *)
(* metric deltas; a widget change or the refresh button runs it again.     *)
(* The clock stands still here, so no cache entry outlives its ttl.        *)

MaxReruns == 1      \* SpecDash: the script is run again at most this many times

\* a slider that also offers horizons of one and two days
SliderDays_from_1 == 1..30

\* st.slider("Days of History", 3, 30, DISPLAY.days_history)
SliderDays == 3..30

\* the ends of the slider, where a rerun may put it
SliderEnds ==
    {d \in SliderDays : (\A e \in SliderDays : d <= e) \/ (\A e \in SliderDays : e <= d)}

\* selectbox options: the default texture and another key of the table
DashTextures == {"Silt Loam", "Sand"}

\* load_sensor_data: generate_sensor_data with its default rain flag and seed
load_sensor_data(days, texture, clock, r, soil, sensor) ==
    generate_sensor_data([days |-> days, soil_texture |-> texture,
                          include_rain_events |-> TRUE, seed |-> 42],
                         clock, r, soil, sensor)

\* df[name]
Column(df, name) == [k \in 1..Len(df.rows) |-> df.rows[k][name]]

MoistureFields == {"sm_6in", "sm_12in", "sm_18in"}

\* current[name] - df[name].iloc[-24]
delta_of(df, current, name) ==
    LET back == iloc(Column(df, name), -24)
    IN  IF back.status # "ok" THEN back
        ELSE [status |-> "ok", value |-> current.value[name] - back.value]

NoFrame == [status |-> "none", rows |-> <<>>]

NoDelta == [status |-> "none"]

EmptyCache == <<>>

InitDash ==
    /\ now = StartClock
    /\ rng \in 0..MaxInitRng
    /\ SOIL = SoilConfig
    /\ SENSOR = SensorConfig
    /\ pc = "load"
    /\ call = NotCalled
    /\ prev = NoCall
    /\ \E d \in SliderDays, t \in DashTextures :
         app = [running |-> TRUE, days_history |-> d, soil_texture |-> t,
                cache |-> EmptyCache, df |-> NoFrame, current |-> NoCurrent,
                delta |-> NoDelta, reruns |-> 0]

\* df = load_sensor_data(days_history, soil_texture), through st.cache_data
Load ==
    /\ pc = "load"
    /\ LET key == <<app.days_history, app.soil_texture>>
       IN  IF key \in DOMAIN app.cache
           THEN /\ app' = [app EXCEPT !.df = app.cache[key]]
                /\ pc' = "current"
                /\ UNCHANGED <<call, rng>>
           ELSE /\ call' = load_sensor_data(app.days_history, app.soil_texture,
                                            now, rng, SOIL, SENSOR)
                /\ rng' = call'.rng
                /\ IF call'.df.status = "ok"
                   THEN /\ app' = [app EXCEPT !.df = call'.df,
                                              !.cache = (key :> call'.df) @@ app.cache]
                        /\ pc' = "current"
                   ELSE /\ app' = [app EXCEPT !.df = call'.df]
                        /\ pc' = "failed"
    /\ UNCHANGED <<now, SOIL, SENSOR, prev>>

\* current = get_current_conditions(df)
TakeCurrent ==
    /\ pc = "current"
    /\ app' = [app EXCEPT !.current = get_current_conditions(app.df)]
    /\ pc' = IF app'.current.status = "ok" THEN "metrics" ELSE "failed"
    /\ UNCHANGED <<now, rng, SOIL, SENSOR, call, prev>>

\* the three soil-moisture metrics with their "(24h)" deltas
Metrics ==
    /\ pc = "metrics"
    /\ app' = [app EXCEPT !.delta =
                 LET each == [f \in MoistureFields |-> delta_of(app.df, app.current, f)]
                 IN  IF \E f \in MoistureFields : each[f].status # "ok"
                     THEN [status |-> "IndexError"]
                     ELSE [status |-> "ok", sm_6in |-> each["sm_6in"].value,
                           sm_12in |-> each["sm_12in"].value,
                           sm_18in |-> each["sm_18in"].value]]
    /\ pc' = IF app'.delta.status = "ok" THEN "done" ELSE "failed"
    /\ UNCHANGED <<now, rng, SOIL, SENSOR, call, prev>>

\* the user moves the slider to an end or picks a texture: the script reruns
ChangeWidgets(d, t) ==
    /\ pc \in {"done", "failed"}
    /\ app.reruns < MaxReruns
    /\ app' = [app EXCEPT !.days_history = d, !.soil_texture = t, !.df = NoFrame,
                          !.current = NoCurrent, !.delta = NoDelta,
                          !.reruns = app.reruns + 1]
    /\ pc' = "load"
    /\ UNCHANGED <<now, rng, SOIL, SENSOR, call, prev>>

\* the refresh button: st.cache_data.clear() and st.rerun()
Refresh ==
    /\ pc \in {"done", "failed"}
    /\ app.reruns < MaxReruns
    /\ app' = [app EXCEPT !.cache = EmptyCache, !.df = NoFrame,
                          !.current = NoCurrent, !.delta = NoDelta,
                          !.reruns = app.reruns + 1]
    /\ pc' = "load"
    /\ UNCHANGED <<now, rng, SOIL, SENSOR, call, prev>>

NextDash ==
    \/ Load
    \/ TakeCurrent
    \/ Metrics
    \/ \E d \in SliderEnds, t \in DashTextures : ChangeWidgets(d, t)
    \/ Refresh

SpecDash == InitDash /\ [][NextDash]_vars

\* the row of df whose timestamp is ts
ReadingAt(df, ts) ==
    df.rows[CHOOSE k \in 1..Len(df.rows) : df.rows[k].timestamp = ts]

\* C13: each soil-moisture delta labelled "(24h)" is the latest reading minus
\* the reading whose timestamp is exactly 24 hours before the latest one.
C13_DeltaOver24h ==
    (pc = "done" /\ app.running /\ app.delta.status = "ok") =>
        \A f \in MoistureFields :
            app.delta[f] = app.current.value[f]
                             - ReadingAt(app.df, app.current.value.timestamp - 24)[f]

\* C14: for every horizon of the slider the script never fails, the loaded
\* table has days*24+1 >= 24 rows, every event count randint(2, 5) can draw
\* is at most n_hours - 48, and the deltas are computed.
C14_DashboardLoads ==
    /\ pc # "failed"
    /\ (app.running /\ pc \in {"current", "metrics", "done"}) =>
         /\ app.df.status = "ok"
         /\ Len(app.df.rows) = app.days_history * 24 + 1
         /\ Len(app.df.rows) >= 24
         /\ \A u \in 0..255 : randint(2, 5, u) <= Len(app.df.rows) - 48
    /\ (app.running /\ pc \in {"metrics", "done"}) => app.current.status = "ok"
    /\ (app.running /\ pc = "done") => app.delta.status = "ok"

\* the shortest horizon of the slider, loaded afresh after a rerun, with the
\* largest event count drawable still within the candidates
C14_Witness ==
    /\ pc = "done"
    /\ app.running
    /\ app.reruns = MaxReruns
    /\ app.days_history = 3
    /\ call.args.days = 3
    /\ Len(app.df.rows) = 73
    /\ \E u \in 0..255 : randint(2, 5, u) = 4
    /\ call.n_events <= Len(app.df.rows) - 48
    /\ app.delta.status = "ok"

====
